---------------------------- MODULE Spec2Model ----------------------------
(***************************************************************************)
(* A model of the stacked area graph of js/index.js: the AreaGraph class   *)
(* (stack builder, scales, render/update lifecycle over animation frames)  *)
(* and the generic functions it uses (nearest-neighbour scans, bisection   *)
(* over a curve's length).                                                 *)
(*                                                                         *)
(* Numbers are exact rationals [n, d] (d > 0, reduced), so a division of   *)
(* the code is a division here.  JavaScript's undefined is the record      *)
(* Undefined.                                                              *)
(***************************************************************************)
EXTENDS Integers, Sequences, FiniteSets, TLC

VARIABLES
    build,        \* which copy of the class the page runs: "es5" | "es6"
    viewport,     \* config.container: [width |-> clientWidth, height |-> clientHeight]
    config,       \* this.config
    data,         \* this.data: [areas, areaMeta]
    stack,        \* this.stack
    container,    \* config.container.childNodes: the svg elements, in order
    chart,        \* this.chart: index into container, 0 when detached
    frameQueue,   \* callbacks given to window.requestAnimationFrame, in order
    call,         \* the generic function being evaluated, with its arguments
    ret           \* what it returned

vars == <<build, viewport, config, data, stack, container, chart,
          frameQueue, call, ret>>

-----------------------------------------------------------------------------
(* Bounds of the model *)

MaxSeries == 2
MaxLen == 3
MaxQueue == 2
MaxPoints == 4
MaxX == 3
CurveEnd == 100

-----------------------------------------------------------------------------
(* JavaScript values *)

Undefined == [kind |-> "undefined"]
TypeError == [kind |-> "error", name |-> "TypeError"]
Str(s) == [kind |-> "string", value |-> s]
Meta(c) == [kind |-> "object", classNames |-> c]

\* array[i] of JavaScript, 0-based, undefined outside the array
At(arr, i) == IF i >= 0 /\ i < Len(arr) THEN arr[i + 1] ELSE Undefined

RECURSIVE Gcd(_, _)
Gcd(a, b) == IF b = 0 THEN a ELSE Gcd(b, a % b)

Abs(a) == IF a < 0 THEN -a ELSE a

Rat(n, d) ==
    LET g == Gcd(Abs(n), Abs(d))
        s == IF d < 0 THEN -1 ELSE 1
    IN  [n |-> (s * n) \div g, d |-> (s * d) \div g]

Num(i) == [n |-> i, d |-> 1]
RAdd(a, b) == Rat(a.n * b.d + b.n * a.d, a.d * b.d)
RSub(a, b) == Rat(a.n * b.d - b.n * a.d, a.d * b.d)
RMul(a, b) == Rat(a.n * b.n, a.d * b.d)
RDiv(a, b) == Rat(a.n * b.d, a.d * b.n)
RLt(a, b) == a.n * b.d < b.n * a.d
RLe(a, b) == a.n * b.d <= b.n * a.d
RAbs(a) == [n |-> Abs(a.n), d |-> a.d]

-----------------------------------------------------------------------------
(* d3 helpers, as index.js calls them *)

RECURSIVE MinLen(_)
MinLen(matrix) ==
    IF Len(matrix) = 1 THEN Len(matrix[1])
    ELSE LET r == MinLen(Tail(matrix))
         IN  IF Len(matrix[1]) < r THEN Len(matrix[1]) ELSE r

\* d3.transpose(matrix): one row per index, as long as the shortest input row
transpose(matrix) ==
    IF matrix = <<>> THEN <<>>
    ELSE [j \in 1..MinLen(matrix) |-> [i \in 1..Len(matrix) |-> matrix[i][j]]]

\* d3.stack().keys(d3.range(n)).offset(d3.stackOffsetNone)(rows): series s
\* holds, per row, [y0, y1]; series 0 starts at 0 and every later series
\* starts at the y1 of the series before it.
\* every series starting where the series before it STARTS
RECURSIVE stackSeriesFromBaseline(_, _)
stackSeriesFromBaseline(rows, s) ==
    [j \in 1..Len(rows) |->
        LET y0 == IF s = 1 THEN 0 ELSE stackSeriesFromBaseline(rows, s - 1)[j][1]
        IN  <<y0, y0 + rows[j][s]>>]

RECURSIVE stackSeries(_, _)
stackSeries(rows, s) ==
    [j \in 1..Len(rows) |->
        LET y0 == IF s = 1 THEN 0 ELSE stackSeries(rows, s - 1)[j][2]
        IN  <<y0, y0 + rows[j][s]>>]

d3stack(rows, n) == [s \in 1..n |-> stackSeries(rows, s)]

\* d3.scaleLinear().domain([d0, d1]).range([r0, r1]) applied to x, the
\* domain having two different ends
scale(d0, d1, r0, r1, x) ==
    RAdd(r0, RMul(RDiv(RSub(x, d0), RSub(d1, d0)), RSub(r1, r0)))

\* ... and its .invert(y)
invert(d0, d1, r0, r1, y) == scale(r0, r1, d0, d1, y)

\* d3's normalize(a, b)(x): where x lies between a and b; with a = b it is a
\* constant, 0 in d3-scale 1 and 0.5 from d3-scale 2.2 on
Flats == {Num(0), Rat(1, 2)}

normalize(flat, a, b, x) == IF a = b THEN flat ELSE RDiv(RSub(x, a), RSub(b, a))

\* d3.scaleLinear() with a domain or a range of equal ends too
scaleLinear(flat, d0, d1, r0, r1, x) ==
    RAdd(r0, RMul(normalize(flat, d0, d1, x), RSub(r1, r0)))

scaleLinearInvert(flat, d0, d1, r0, r1, y) ==
    RAdd(d0, RMul(normalize(flat, r0, r1, y), RSub(d1, d0)))

-----------------------------------------------------------------------------
(* Objects: a JavaScript object is a record; a leaf is Str(...) or a number *)

IsObject(o) == "kind" \notin DOMAIN o

\* _extends({}, a, b): the own keys of b over those of a, one level deep
_extends(a, b) ==
    [k \in DOMAIN a \cup DOMAIN b |-> IF k \in DOMAIN b THEN b[k] ELSE a[k]]

\* o.p1.p2...: undefined where a key is missing on the way
RECURSIVE Lookup(_, _)
Lookup(o, path) ==
    IF path = <<>> THEN o
    ELSE IF IsObject(o) /\ Head(path) \in DOMAIN o
         THEN Lookup(o[Head(path)], Tail(path))
         ELSE Undefined

defaults ==
    [attributeNames |-> [areaBorderId |-> Str("data-area-id")],
     classNames |->
        [svg |-> Str("svg-content"),
         area |-> Str("area"),
         areaBorder |-> Str("border"),
         highlight |->
            [circle |-> Str("highlight highlight__circle"),
             path |-> Str("highlight highlight__path border border--highlight")]],
     ids |-> [mask |-> [highlightPath |-> Str("maskHighlightPath")]],
     areaCurve |-> Str("d3.curveBasis")]

\* selection.classed(names, true) with names read from an object: String(names)
ClassOf(v) == IF v = Undefined THEN "undefined" ELSE v.value

-----------------------------------------------------------------------------
(* AreaGraph: stack builder and scales *)

areaCount(d) == Len(d.areas)

xAxisSectionCount(d) == Len(d.areas[1]) - 1

\* this.xScale()(x) and this.xScale().invert(px)
xScale(d, vp, x) == scale(Num(0), Num(xAxisSectionCount(d)), Num(0), Num(vp.width), x)
xScaleInvert(d, vp, px) ==
    invert(Num(0), Num(xAxisSectionCount(d)), Num(0), Num(vp.width), px)

\* the metadata looked up by the point's index instead of the series'
updateStackMetaByPoint(d, vp) ==
    LET rows == transpose(d.areas)
        transposedStack == d3stack(rows, areaCount(d))
    IN  [s \in 1..areaCount(d) |->
            [j \in 1..Len(rows) |->
                LET index == j - 1
                    xPosition ==
                        IF index = 0 THEN Num(0)
                        ELSE RMul(RDiv(Num(vp.width), Num(xAxisSectionCount(d))),
                                  Num(index))
                    currentValue == transposedStack[s][j]
                IN  [y0 |-> currentValue[1],
                     y1 |-> currentValue[2],
                     data |-> rows[j],
                     coords |-> [x |-> xScaleInvert(d, vp, xPosition),
                                 y |-> currentValue[2]],
                     meta |-> At(d.areaMeta, index)]]]

\* coords.x kept as the pixel position, not taken back through the scale
updateStackPixelCoords(d, vp) ==
    LET rows == transpose(d.areas)
        transposedStack == d3stack(rows, areaCount(d))
    IN  [s \in 1..areaCount(d) |->
            [j \in 1..Len(rows) |->
                LET index == j - 1
                    xPosition ==
                        IF index = 0 THEN Num(0)
                        ELSE RMul(RDiv(Num(vp.width), Num(xAxisSectionCount(d))),
                                  Num(index))
                    currentValue == transposedStack[s][j]
                IN  [y0 |-> currentValue[1],
                     y1 |-> currentValue[2],
                     data |-> rows[j],
                     coords |-> [x |-> xPosition, y |-> currentValue[2]],
                     meta |-> At(d.areaMeta, s - 1)]]]

updateStack(d, vp) ==
    LET rows == transpose(d.areas)
        transposedStack == d3stack(rows, areaCount(d))
    IN  [s \in 1..areaCount(d) |->
            [j \in 1..Len(rows) |->
                LET index == j - 1
                    chartWidth == vp.width
                    xPosition ==
                        IF index = 0 THEN Num(0)
                        ELSE RMul(RDiv(Num(chartWidth), Num(xAxisSectionCount(d))),
                                  Num(index))
                    currentValue == transposedStack[s][j]
                IN  [y0 |-> currentValue[1],
                     y1 |-> currentValue[2],
                     data |-> rows[j],
                     coords |-> [x |-> xScaleInvert(d, vp, xPosition),
                                 y |-> currentValue[2]],
                     meta |-> At(d.areaMeta, s - 1)]]]

\* d3.min(this.stack, stackMin) and d3.max(this.stack, stackMax)
RECURSIVE Least(_)
Least(S) ==
    LET v == CHOOSE x \in S : TRUE
    IN  IF S = {v} THEN v
        ELSE LET r == Least(S \ {v}) IN IF v < r THEN v ELSE r

stackMin(st) == Least({st[s][k].y0 : s \in DOMAIN st, k \in DOMAIN st[1]})
stackMax(st) == -Least({-st[s][k].y1 : s \in DOMAIN st, k \in DOMAIN st[1]})

\* the range of yScale(): [height, 5] in the compiled copy, [height, 0] in
\* the class
yRange(bld, vp) == <<Num(vp.height), IF bld = "es5" THEN Num(5) ELSE Num(0)>>

\* convertPointToPx(coords) and convertPxToPoint(coords)
convertPointToPx(flat, bld, d, st, vp, coords) ==
    [x |-> scaleLinear(flat, Num(0), Num(xAxisSectionCount(d)),
                       Num(0), Num(vp.width), coords.x),
     y |-> scaleLinear(flat, Num(stackMin(st)), Num(stackMax(st)),
                       yRange(bld, vp)[1], yRange(bld, vp)[2], coords.y)]

convertPxToPoint(flat, bld, d, st, vp, coords) ==
    [x |-> scaleLinearInvert(flat, Num(0), Num(xAxisSectionCount(d)),
                             Num(0), Num(vp.width), coords.x),
     y |-> scaleLinearInvert(flat, Num(stackMin(st)), Num(stackMax(st)),
                             yRange(bld, vp)[1], yRange(bld, vp)[2], coords.y)]

-----------------------------------------------------------------------------
(* Generic functions used by AreaGraph *)

\* the scan taking a point AT the reference too
RECURSIVE reduceLeftInclusive(_, _, _, _)
reduceLeftInclusive(data_, referencePointX, accumulator, k) ==
    IF k > Len(data_) THEN accumulator
    ELSE LET closestXValue == data_[k].coords.x
         IN  reduceLeftInclusive(data_, referencePointX,
                 IF RLe(closestXValue, referencePointX)
                    /\ RLe(accumulator.coords.x, closestXValue)
                 THEN data_[k] ELSE accumulator,
                 k + 1)

\* data.reduce(f): the accumulator starts as data[0], the others follow in order
RECURSIVE reduceLeft(_, _, _, _)
reduceLeft(data_, referencePointX, accumulator, k) ==
    IF k > Len(data_) THEN accumulator
    ELSE LET currentValue == data_[k]
             closestXValue == currentValue.coords.x
         IN  reduceLeft(data_, referencePointX,
                 IF RLt(closestXValue, referencePointX)
                    /\ RLe(accumulator.coords.x, closestXValue)
                 THEN currentValue ELSE accumulator,
                 k + 1)

\* the scan starting from the last point instead of the first
findClosestPointLeftFromLast(data_, referencePointX) ==
    reduceLeft(data_, referencePointX, data_[Len(data_)], 1)

findClosestPointLeft(data_, referencePointX) ==
    reduceLeft(data_, referencePointX, data_[1], 2)

\* the scan passing over a point AT the reference
RECURSIVE reduceRightExclusive(_, _, _, _)
reduceRightExclusive(data_, referencePointX, accumulator, k) ==
    IF k < 1 THEN accumulator
    ELSE LET closestXValue == data_[k].coords.x
         IN  reduceRightExclusive(data_, referencePointX,
                 IF RLt(referencePointX, closestXValue)
                    /\ RLe(closestXValue, accumulator.coords.x)
                 THEN data_[k] ELSE accumulator,
                 k - 1)

\* data.reduceRight(f): the accumulator starts as the last element
RECURSIVE reduceRight(_, _, _, _)
reduceRight(data_, referencePointX, accumulator, k) ==
    IF k < 1 THEN accumulator
    ELSE LET currentValue == data_[k]
             closestXValue == currentValue.coords.x
         IN  reduceRight(data_, referencePointX,
                 IF RLe(referencePointX, closestXValue)
                    /\ RLe(closestXValue, accumulator.coords.x)
                 THEN currentValue ELSE accumulator,
                 k - 1)

findClosestPointRight(data_, referencePointX) ==
    reduceRight(data_, referencePointX, data_[Len(data_)], Len(data_) - 1)

-----------------------------------------------------------------------------
(* AreaGraph: the drawing surface.  An svg is [class, width, height,       *)
(* layers]; a layer is [name, children].                                   *)

Layer(name, children) == [name |-> name, children |-> children]

\* renderArea(d, i): the class of the i-th POINT of series i, when it has one
renderArea(d, i) ==
    LET p == At(d, i)
    IN  IF p # Undefined /\ p.meta.kind = "object" /\ p.meta.classNames # ""
        THEN {p.meta.classNames} ELSE {}

renderAreas(cfg, st) ==
    Layer("areas",
        [s \in 1..Len(st) |->
            [tag |-> "path",
             class |-> {ClassOf(Lookup(cfg, <<"classNames", "area">>))}
                        \cup renderArea(st[s], s - 1),
             datum |-> st[s]]])

renderAreaBorders(cfg, st) ==
    Layer("borders",
        [s \in 1..Len(st) |->
            [tag |-> "path",
             class |-> {ClassOf(Lookup(cfg, <<"classNames", "areaBorder">>))},
             datum |-> st[s]]])

\* renderDividers(): the layer is added, then one g per value of areas[0].
\* With no areas[0], selection.data(undefined) gives nothing enter() could be
\* called on: a TypeError, the layer staying empty.
renderDividersThrows(d) == Len(d.areas) = 0

renderDividers(d) ==
    IF renderDividersThrows(d) THEN Layer("dividers", <<>>)
    ELSE LET dividerCount == xAxisSectionCount(d)
         IN  Layer("dividers",
                 [j \in 1..Len(d.areas[1]) |->
                     [tag |-> "g",
                      class |-> {"divider"}
                         \cup (IF j - 1 = 0 THEN {"divider--first"}
                               ELSE IF j - 1 = dividerCount THEN {"divider--last"}
                               ELSE {})]])

\* render() ends by an error: only the class calls renderDividers()
renderThrows(bld, d) == bld = "es6" /\ renderDividersThrows(d)

\* render(): a new svg, sized to the container; the last statement differs
\* between the two copies of the class
render(bld, cfg, d, st, vp) ==
    [class |-> ClassOf(Lookup(cfg, <<"classNames", "svg">>)),
     width |-> vp.width,
     height |-> vp.height,
     layers |-> <<renderAreas(cfg, st), renderAreaBorders(cfg, st)>>
                \o (IF bld = "es6" THEN <<renderDividers(d)>> ELSE <<>>)]

\* the layer left in place
removeLayerNone(svg, name) == svg

\* removeLayer(name) / addLayer(name) on one svg
removeLayer(svg, name) ==
    [svg EXCEPT !.layers = SelectSeq(svg.layers, LAMBDA l : l.name # name)]

addLayer(svg, layer) == [svg EXCEPT !.layers = Append(svg.layers, layer)]

-----------------------------------------------------------------------------
(* AreaGraph: the callbacks given to window.requestAnimationFrame.  Each   *)
(* works on o = [data, stack, container, chart, ops]; ops lists the calls  *)
(* it made on the drawing surface.                                         *)

\* clear(): every child of the container is removed; this.chart keeps
\* pointing at the removed svg until render() runs
clear(o) == [o EXCEPT !.container = <<>>, !.chart = 0,
                      !.ops = Append(@, "clear")]

renderInto(bld, cfg, vp, o) ==
    [o EXCEPT !.container = Append(@, render(bld, cfg, o.data, o.stack, vp)),
              !.chart = Len(o.container) + 1,
              !.ops = Append(@, "render")
                      \o (IF renderThrows(bld, o.data) THEN <<"TypeError">> ELSE <<>>)]

\* handleResize's callback
resizeFrame(bld, cfg, vp, o) == renderInto(bld, cfg, vp, clear(o))

\* the callback rendering again without stacking the data again
updateFrameNoRebuild(bld, cfg, vp, o) == renderInto(bld, cfg, vp, clear(o))

\* update's callback
updateFrame(bld, cfg, vp, o) ==
    LET cleared == clear(o)
        rebuilt == [cleared EXCEPT !.stack = updateStack(o.data, vp),
                                   !.ops = Append(@, "updateStack")]
    IN  renderInto(bld, cfg, vp, rebuilt)

\* the callback removing nothing
unhighlightFrameNone(o) == [o EXCEPT !.ops = Append(@, "unhighlight")]

\* unhighlightSection's callback
unhighlightFrame(o) ==
    [o EXCEPT !.container =
                 IF o.chart = 0 THEN @
                 ELSE [@ EXCEPT ![o.chart] = removeLayer(@, "highlights")],
              !.ops = Append(@, "unhighlight")]

\* d3.select('#' + id): the first svg of the document holding the mask
RECURSIVE selectMask(_, _)
selectMask(cont, k) ==
    IF k > Len(cont) THEN 0
    ELSE IF \E l \in 1..Len(cont[k].layers) : cont[k].layers[l].name = "masks"
         THEN k
         ELSE selectMask(cont, k + 1)

maskRect(cfg, maskConfig) ==
    [tag |-> "mask",
     id |-> ClassOf(Lookup(cfg, <<"ids", "mask", "highlightPath">>)),
     rect |-> [x |-> maskConfig.boundary.left,
               width |-> RSub(maskConfig.boundary.right, maskConfig.boundary.left)]]

\* renderMask(config): a masks layer is added to this.chart when the document
\* has no mask yet; otherwise the mask's rect is replaced
renderMask(cfg, cont, chart_, maskConfig) ==
    LET at == selectMask(cont, 1)
    IN  IF at = 0
        THEN [cont EXCEPT ![chart_] =
                 addLayer(@, Layer("masks", <<maskRect(cfg, maskConfig)>>))]
        ELSE [cont EXCEPT ![at].layers =
                 [l \in 1..Len(@) |->
                     IF @[l].name = "masks"
                     THEN Layer("masks", <<maskRect(cfg, maskConfig)>>)
                     ELSE @[l]]]

\* highlightSection's callback: the highlights layer is removed and added
\* again, the mask is drawn, then the path of series cb.i and the two circles.
\* A circle's cy is the curve's height over its ideal point (closestPoint*.y).
\* With no series cb.i in the stack the line generator throws on the path's
\* "d": the path stays without one and no circle is drawn.
highlightFrame(cfg, vp, cb, o) ==
    LET removed == [o.container EXCEPT ![o.chart] = removeLayer(@, "highlights")]
        added   == [removed EXCEPT ![o.chart] = addLayer(@, Layer("highlights", <<>>))]
        masked  == renderMask(cfg, added, o.chart, cb.maskConfig)
        circle(ideal) ==
            [tag |-> "circle",
             class |-> ClassOf(Lookup(cfg, <<"classNames", "highlight", "circle">>)),
             cx |-> xScale(o.data, vp, ideal.x),
             over |-> ideal.x]
        hasSeries == cb.i < Len(o.stack)
        path ==
            [tag |-> "path",
             class |-> ClassOf(Lookup(cfg, <<"classNames", "highlight", "path">>)),
             drawn |-> hasSeries,
             datum |-> IF hasSeries THEN o.stack[cb.i + 1] ELSE <<>>]
        children ==
            IF hasSeries
            THEN <<path, circle(cb.idealPointLeft), circle(cb.idealPointRight)>>
            ELSE <<path>>
    IN  [o EXCEPT !.container =
                     [masked EXCEPT ![o.chart].layers =
                         [l \in 1..Len(@) |->
                             IF @[l].name = "highlights"
                             THEN Layer("highlights", children) ELSE @[l]]],
                  !.ops = Append(@, "highlight")]

runCallback(bld, cfg, vp, cb, o) ==
    CASE cb.kind = "resize"      -> resizeFrame(bld, cfg, vp, o)
      [] cb.kind = "update"      -> updateFrame(bld, cfg, vp, o)
      [] cb.kind = "unhighlight" -> unhighlightFrame(o)
      [] cb.kind = "highlight"   -> highlightFrame(cfg, vp, cb, o)

\* one animation frame: the callbacks queued before it run in order
RECURSIVE runFrame(_, _, _, _, _)
runFrame(bld, cfg, vp, queue, o) ==
    IF queue = <<>> THEN o
    ELSE runFrame(bld, cfg, vp, Tail(queue), runCallback(bld, cfg, vp, Head(queue), o))

-----------------------------------------------------------------------------
(* AreaGraph: constructor, event handlers, update *)

NoCall == [fn |-> "none"]
Thrown == [fn |-> "thrown"]
NoData == [areas |-> <<>>, areaMeta |-> <<>>]

\* new AreaGraph(config): this.config, this.data, then init(): the stack is
\* built and the first render appended to the container.  When render() throws
\* the caller gets the error and no graph, and no resize listener is added.
AreaGraph(bld, vp, cfgIn) ==
    LET cfg == _extends(defaults, cfgIn)
        st  == updateStack(cfgIn.data, vp)
    IN  [config |-> cfg,
         data |-> cfgIn.data,
         stack |-> st,
         container |-> <<render(bld, cfg, cfgIn.data, st, vp)>>,
         chart |-> 1]

Construct ==
    /\ call.fn = "AreaGraph"
    /\ LET this == AreaGraph(build, viewport, call.config)
       IN  /\ config' = this.config
           /\ data' = this.data
           /\ stack' = this.stack
           /\ container' = this.container
           /\ chart' = this.chart
    /\ IF renderThrows(build, call.config.data)
       THEN call' = Thrown /\ ret' = TypeError
       ELSE call' = NoCall /\ ret' = [update |-> Str("function")]
    /\ UNCHANGED <<build, viewport, frameQueue>>

requestAnimationFrame(cb) ==
    /\ Len(frameQueue) < MaxQueue
    /\ frameQueue' = Append(frameQueue, cb)

\* a resize event of the window, the container now being as large as vp
handleResize(vp) ==
    /\ call = NoCall
    /\ viewport' = vp
    /\ requestAnimationFrame([kind |-> "resize"])
    /\ UNCHANGED <<build, config, data, stack, container, chart, call, ret>>

\* the update merged over the constructor's data instead of the current data
mergeDataOverInitial(this, d) == _extends(this.config.data, d)

\* this.data = _extends({}, this.data, data)
mergeData(this, d) == _extends(this.data, d)

\* areaGraph.update(d)
update(d) ==
    /\ call = NoCall
    /\ data' = mergeData([config |-> config, data |-> data], d)
    /\ requestAnimationFrame([kind |-> "update"])
    /\ UNCHANGED <<build, viewport, config, stack, container, chart, call, ret>>

\* the area paths a pointer event can hit: those of the document
areaPaths ==
    IF chart = 0 THEN <<>>
    ELSE LET ls == SelectSeq(container[chart].layers, LAMBDA l : l.name = "areas")
         IN  IF ls = <<>> THEN <<>> ELSE ls[1].children

\* highlightSection(d, i) with the pointer at pixel cursorX of the container
highlightSection(d, i, cursorX) ==
    LET cursorCoordsX == xScaleInvert(data, viewport, Num(cursorX))
        idealPointLeft == findClosestPointLeft(d, cursorCoordsX).coords
        idealPointRight == findClosestPointRight(d, cursorCoordsX).coords
        maskConfig ==
            [boundary |-> [left |-> xScale(data, viewport, idealPointLeft.x),
                           right |-> xScale(data, viewport, idealPointRight.x)]]
    IN  requestAnimationFrame(
            [kind |-> "highlight", i |-> i, maskConfig |-> maskConfig,
             idealPointLeft |-> idealPointLeft, idealPointRight |-> idealPointRight])

handleMouseOver(i, cursorX) ==
    /\ call = NoCall
    /\ i < Len(areaPaths)
    /\ highlightSection(areaPaths[i + 1].datum, i, cursorX)
    /\ UNCHANGED <<build, viewport, config, data, stack, container, chart,
                   call, ret>>

handleMouseMove(i, cursorX) ==
    /\ call = NoCall
    /\ i < Len(areaPaths)
    /\ highlightSection(areaPaths[i + 1].datum, i, cursorX)
    /\ UNCHANGED <<build, viewport, config, data, stack, container, chart,
                   call, ret>>

handleMouseOut ==
    /\ call = NoCall
    /\ areaPaths # <<>>
    /\ requestAnimationFrame([kind |-> "unhighlight"])
    /\ UNCHANGED <<build, viewport, config, data, stack, container, chart,
                   call, ret>>

\* what the callbacks now queued do when the next animation frame runs them
frame ==
    runFrame(build, config, viewport, frameQueue,
             [data |-> data, stack |-> stack, container |-> container,
              chart |-> chart, ops |-> <<>>])

\* the browser's next animation frame
Flush ==
    /\ call = NoCall
    /\ frameQueue # <<>>
    /\ LET o == frame
       IN  /\ stack' = o.stack
           /\ container' = o.container
           /\ chart' = o.chart
    /\ frameQueue' = <<>>
    /\ UNCHANGED <<build, viewport, config, data, call, ret>>

-----------------------------------------------------------------------------
(* The generic functions, called on their own.  call holds the function,   *)
(* its arguments and whether it has returned; ret holds the result.        *)

CallFindClosestPointLeft ==
    /\ call.fn = "findClosestPointLeft"
    /\ ~call.returned
    /\ ret' = findClosestPointLeft(call.data, call.referencePointX)
    /\ call' = [call EXCEPT !.returned = TRUE]
    /\ UNCHANGED <<build, viewport, config, data, stack, container, chart, frameQueue>>

CallFindClosestPointRight ==
    /\ call.fn = "findClosestPointRight"
    /\ ~call.returned
    /\ ret' = findClosestPointRight(call.data, call.referencePointX)
    /\ call' = [call EXCEPT !.returned = TRUE]
    /\ UNCHANGED <<build, viewport, config, data, stack, container, chart, frameQueue>>

\* this.convertPointToPx(coords) on the graph as it stands, then
\* this.convertPxToPoint of what it returned
CallConvertPointToPx ==
    /\ call.fn = "convertPointToPx"
    /\ ret' = convertPointToPx(call.flat, build, data, stack, viewport, call.coords)
    /\ call' = [fn |-> "convertPxToPoint", flat |-> call.flat, coords |-> ret',
                point |-> call.coords, returned |-> FALSE]
    /\ UNCHANGED <<build, viewport, config, data, stack, container, chart, frameQueue>>

CallConvertPxToPoint ==
    /\ call.fn = "convertPxToPoint"
    /\ ~call.returned
    /\ ret' = convertPxToPoint(call.flat, build, data, stack, viewport, call.coords)
    /\ call' = [call EXCEPT !.returned = TRUE]
    /\ UNCHANGED <<build, viewport, config, data, stack, container, chart, frameQueue>>

\* highlightSection's boundaries for the points d of one area and the cursor
\* at cursorCoords.x: the two ideal points and the mask between their pixels
CallHighlightBoundaries ==
    /\ call.fn = "highlightBoundaries"
    /\ ~call.returned
    /\ LET idealPointLeft == findClosestPointLeft(call.data, call.referencePointX).coords
           idealPointRight == findClosestPointRight(call.data, call.referencePointX).coords
       IN  ret' = [idealPointLeft |-> idealPointLeft,
                   idealPointRight |-> idealPointRight,
                   maskConfig |->
                      [boundary |->
                          [left |-> xScale(data, viewport, idealPointLeft.x),
                           right |-> xScale(data, viewport, idealPointRight.x)]]]
    /\ call' = [call EXCEPT !.returned = TRUE]
    /\ UNCHANGED <<build, viewport, config, data, stack, container, chart, frameQueue>>

precision == Rat(1, 2)

\* the curves of the model: pointFunc(length) is the point of the curve at
\* that length.  The x of "line", "steep", "flat" and "bend" grows strictly
\* with the length; "peak" turns back half way and "level" stays at one x.
pointFunc(curve, length) ==
    [x |-> CASE curve = "line"   -> length
             [] curve = "steep"  -> RAdd(RMul(Num(3), length), Num(7))
             [] curve = "flat"   -> IF RLe(length, Num(60)) THEN RDiv(length, Num(4))
                                    ELSE RSub(RMul(Num(7), length), Num(405))
             [] curve = "bend"   -> IF RLe(length, Num(30)) THEN length
                                    ELSE RSub(RMul(Num(5), length), Num(120))
             [] curve = "peak"   -> IF RLe(length, Num(50)) THEN length
                                    ELSE RSub(Num(100), length)
             [] curve = "level"  -> Num(5),
     y |-> RSub(Num(200), length)]

\* the half searched next, taken the wrong way round
recurseReversed(c, split, curvePoint) ==
    IF RLe(curvePoint.x, c.xValue)
    THEN [c EXCEPT !.right = split, !.split = split, !.depth = @ + 1]
    ELSE [c EXCEPT !.left = split, !.split = split, !.depth = @ + 1]

\* the recursive call moving its bound only half way to the split
recurseQuarter(c, split, curvePoint) ==
    IF RLe(curvePoint.x, c.xValue)
    THEN [c EXCEPT !.left = RDiv(RAdd(c.left, split), Num(2)), !.split = split,
                   !.depth = @ + 1]
    ELSE [c EXCEPT !.right = RDiv(RAdd(c.right, split), Num(2)), !.split = split,
                   !.depth = @ + 1]

\* the recursive call: [split, right] when curvePoint.x <= xValue, else
\* [left, split]
recurse(c, split, curvePoint) ==
    IF RLe(curvePoint.x, c.xValue)
    THEN [c EXCEPT !.left = split, !.split = split, !.depth = @ + 1]
    ELSE [c EXCEPT !.right = split, !.split = split, !.depth = @ + 1]

\* one invocation of findClosestPointVerticallyR(left, right, xValue, pointFunc):
\* it returns curvePoint or calls itself on one half
findClosestPointVertically ==
    /\ call.fn = "findClosestPointVertically"
    /\ ~call.returned
    /\ LET split == RDiv(RAdd(call.left, call.right), Num(2))
           curvePoint == pointFunc(call.curve, split)
           distance == RAbs(RSub(call.right, call.left))
       IN  IF RLe(distance, precision)
           THEN /\ ret' = curvePoint
                /\ call' = [call EXCEPT !.returned = TRUE, !.split = split]
           ELSE /\ ret' = ret
                /\ call' = recurse(call, split, curvePoint)
    /\ UNCHANGED <<build, viewport, config, data, stack, container, chart, frameQueue>>

-----------------------------------------------------------------------------
(* The page: inputs of the model *)

Builds == {"es5", "es6"}

Viewports == {[width |-> 6, height |-> 3], [width |-> 4, height |-> 3]}

CursorXs(vp) == {1, vp.width}

\* the series of the page and of its updates
AreasInputs ==
    {<<<<1, 2>>, <<3, 4>>>>, <<<<1, 1, 2>>>>}

MetaInputs == {<<Str(""), Meta("area--blue-light")>>, <<Meta("area--green-dark")>>}

UpdateInputs ==
    {<<>>}
    \cup {[areas |-> a] : a \in AreasInputs}
    \cup {[areaMeta |-> m] : m \in MetaInputs}
    \cup {[areas |-> a, areaMeta |-> m] : a \in AreasInputs, m \in MetaInputs}

Page(d) == [container |-> Str("#area-graph"), data |-> d]

Init ==
    /\ build \in Builds
    /\ viewport = [width |-> 6, height |-> 3]
    /\ \E a \in AreasInputs, m \in MetaInputs :
          LET this == AreaGraph(build, viewport, Page([areaMeta |-> m, areas |-> a]))
          IN  /\ config = this.config
              /\ data = this.data
              /\ stack = this.stack
              /\ container = this.container
              /\ chart = this.chart
    /\ frameQueue = <<>>
    /\ call = NoCall
    /\ ret = [update |-> Str("function")]

Next ==
    \/ handleResize(viewport)
    \/ \E d \in UpdateInputs : update(d)
    \/ \E i \in 0..(Len(areaPaths) - 1), x \in CursorXs(viewport) : handleMouseOver(i, x)
    \/ \E i \in 0..(Len(areaPaths) - 1), x \in CursorXs(viewport) : handleMouseMove(i, x)
    \/ handleMouseOut
    \/ Flush

Spec == Init /\ [][Next]_vars

\* updates and resizes only, the container changing its size
NextUpdate ==
    \/ \E vp \in Viewports : handleResize(vp)
    \/ \E d \in UpdateInputs : update(d)
    \/ Flush

SpecUpdate == Init /\ [][NextUpdate]_vars

\* the pointer over the areas, with resizes and the update to one series of
\* three values between its events
PointerUpdateInputs == {[areas |-> <<<<1, 1, 2>>>>]}

NextPointer ==
    \/ handleResize(viewport)
    \/ \E d \in PointerUpdateInputs : update(d)
    \/ \E i \in 0..(Len(areaPaths) - 1), x \in CursorXs(viewport) : handleMouseOver(i, x)
    \/ \E i \in 0..(Len(areaPaths) - 1), x \in CursorXs(viewport) : handleMouseMove(i, x)
    \/ handleMouseOut
    \/ Flush

SpecPointer == Init /\ [][NextPointer]_vars

\* before the constructor has run
NotConstructed ==
    /\ viewport = [width |-> 6, height |-> 3]
    /\ config = Undefined
    /\ data = NoData
    /\ stack = <<>>
    /\ container = <<>>
    /\ chart = 0
    /\ frameQueue = <<>>
    /\ ret = Undefined

\* the constructor on every choice of options: each option left out, or given
\* in part
Custom(k) == Str("my-" \o k)

Partial(keys) == {[k \in S |-> Custom(k)] : S \in (SUBSET keys) \ {{}}}

ClassNamesInputs ==
    Partial({"svg", "area", "areaBorder"})
    \cup {[highlight |-> h] : h \in Partial({"circle", "path"})}
    \cup {c @@ [highlight |-> h] :
             c \in Partial({"svg", "area", "areaBorder"}),
             h \in Partial({"circle", "path"})}

OptionInputs ==
    LET none == {Page([areaMeta |-> <<Str("")>>, areas |-> <<<<1, 2>>>>])}
        withClassNames ==
            none \cup {c @@ [classNames |-> n] : c \in none, n \in ClassNamesInputs}
        withIds ==
            withClassNames
            \cup {c @@ [ids |-> [mask |-> [highlightPath |-> Custom("mask")]]] :
                     c \in withClassNames}
    IN  withIds \cup {c @@ [areaCurve |-> Str("d3.curveLinear")] : c \in withIds}

InitConfig ==
    /\ build \in Builds
    /\ NotConstructed
    /\ call \in {[fn |-> "AreaGraph", config |-> c] : c \in OptionInputs}

SpecConfig == InitConfig /\ [][Construct]_vars

\* the constructor on every N x M matrix of the values, and the data of
\* the documentation's examples
StackValues == {-1, 2}

Matrices(n, m) == [1..n -> [1..m -> StackValues]]

StackAreasInputs ==
    UNION {Matrices(n, m) : n \in 1..MaxSeries, m \in 0..MaxLen}
    \cup {<<<<1, 2>>, <<3, 4>>>>,
          <<<<1, 1, 2, 3, 3>>, <<0, 2, 0, 1, 4>>, <<5, 1, 1, 0, 2>>>>}

StackMetaInputs == MetaInputs \cup {<<Meta("a"), Str(""), Meta("c")>>}

InitStack ==
    /\ build \in Builds
    /\ NotConstructed
    /\ call \in {[fn |-> "AreaGraph", config |-> Page([areaMeta |-> m, areas |-> a])] :
                    a \in StackAreasInputs, m \in StackMetaInputs}

SpecStack == InitStack /\ [][Construct]_vars

\* the two scans on every ascending sequence of points and every reference
\* (whole and half positions, from below the first point to above the last)
PointAt(x, k) == [coords |-> [x |-> Num(x), y |-> k]]

SortedXs(n) == {xs \in [1..n -> 0..MaxX] : \A i \in 1..(n - 1) : xs[i] <= xs[i + 1]}

SearchDataInputs ==
    UNION {{[k \in 1..n |-> PointAt(xs[k], k)] : xs \in SortedXs(n)} : n \in 1..MaxPoints}

ReferenceInputs == {Rat(h, 2) : h \in -2..(2 * MaxX + 2)}

InitSearch ==
    /\ build = "es6"
    /\ NotConstructed
    /\ call \in {[fn |-> f, data |-> d, referencePointX |-> r, returned |-> FALSE] :
                    f \in {"findClosestPointLeft", "findClosestPointRight"},
                    d \in SearchDataInputs, r \in ReferenceInputs}

NextSearch == CallFindClosestPointLeft \/ CallFindClosestPointRight

SpecSearch == InitSearch /\ [][NextSearch]_vars

\* construction and updates with data that may have no series at all
EmptyAreasInputs == {<<>>, <<<<1, 2>>, <<3, 4>>>>}

EmptyUpdateInputs ==
    {[areas |-> a] : a \in EmptyAreasInputs}
    \cup {[areaMeta |-> m] : m \in MetaInputs}

InitEmpty ==
    /\ build \in Builds
    /\ NotConstructed
    /\ call \in {[fn |-> "AreaGraph",
                  config |-> Page([areaMeta |-> <<Str("")>>, areas |-> a])] :
                    a \in EmptyAreasInputs}

NextEmpty ==
    \/ Construct
    \/ \E vp \in Viewports : handleResize(vp)
    \/ \E d \in EmptyUpdateInputs : update(d)
    \/ Flush

SpecEmpty == InitEmpty /\ [][NextEmpty]_vars

\* the two conversions on a graph built in a container of 6 by 3 that has
\* since taken any size, the empty one included, for every point of the
\* coordinate system at whole and half positions
ScaleViewports == {[width |-> w, height |-> h] : w \in {0, 4, 6}, h \in {0, 3, 5}}

ScaleAreasInputs == AreasInputs \cup {<<<<1>>>>, <<<<0, 0>>>>}

ScalePoints(d, st) ==
    {[x |-> Rat(h, 2), y |-> Rat(v, 2)] :
        h \in 0..(2 * xAxisSectionCount(d)),
        v \in (2 * stackMin(st))..(2 * stackMax(st))}

InitScale ==
    /\ build \in Builds
    /\ viewport \in ScaleViewports
    /\ \E a \in ScaleAreasInputs :
          LET this == AreaGraph(build, [width |-> 6, height |-> 3],
                                Page([areaMeta |-> <<>>, areas |-> a]))
          IN  /\ config = this.config
              /\ data = this.data
              /\ stack = this.stack
              /\ container = this.container
              /\ chart = this.chart
              /\ call \in {[fn |-> "convertPointToPx", flat |-> f, coords |-> p] :
                              f \in Flats, p \in ScalePoints(this.data, this.stack)}
    /\ frameQueue = <<>>
    /\ ret = [update |-> Str("function")]

NextScale == CallConvertPointToPx \/ CallConvertPxToPoint

SpecScale == InitScale /\ [][NextScale]_vars

\* the boundaries of the highlight for every ascending sequence of points and
\* every reference, on an x-scale of MaxX sections over a container of any
\* width
InitBoundaries ==
    /\ build = "es6"
    /\ viewport \in {[width |-> w, height |-> 3] : w \in {0, 4, 6}}
    /\ config = Undefined
    /\ data = [areas |-> <<[k \in 1..(MaxX + 1) |-> 1]>>, areaMeta |-> <<>>]
    /\ stack = <<>>
    /\ container = <<>>
    /\ chart = 0
    /\ frameQueue = <<>>
    /\ ret = Undefined
    /\ call \in {[fn |-> "highlightBoundaries", data |-> d, referencePointX |-> r,
                  returned |-> FALSE] :
                    d \in SearchDataInputs, r \in ReferenceInputs}

SpecBoundaries == InitBoundaries /\ [][CallHighlightBoundaries]_vars

\* the bisection on every curve of the model, for the x of every third of a
\* unit of length
Curves == {"line", "steep", "flat", "bend"}

InitBisect ==
    /\ build = "es6"
    /\ NotConstructed
    /\ call \in {[fn |-> "findClosestPointVertically", curve |-> c,
                  left |-> Num(0), right |-> Num(CurveEnd),
                  xValue |-> pointFunc(c, Rat(t, 3)).x, target |-> Rat(t, 3),
                  split |-> Num(0), depth |-> 0, returned |-> FALSE] :
                    c \in Curves, t \in 0..(3 * CurveEnd)}

SpecBisect == InitBisect /\ [][findClosestPointVertically]_vars

\* the bisection on every curve, those turning back included, for every whole
\* x from below the curve to beyond it
AnyCurves == Curves \cup {"peak", "level"}

InitBisectAny ==
    /\ build = "es6"
    /\ NotConstructed
    /\ call \in {[fn |-> "findClosestPointVertically", curve |-> c,
                  left |-> Num(0), right |-> Num(CurveEnd),
                  xValue |-> Num(x), target |-> Num(x),
                  split |-> Num(0), depth |-> 0, returned |-> FALSE] :
                    c \in AnyCurves, x \in -1..(CurveEnd + 1)}

SpecBisectAny == InitBisectAny /\ [][findClosestPointVertically]_vars

-----------------------------------------------------------------------------
(* What the claims speak of *)

\* baseline and top of every stacked point
Values(st) == [s \in DOMAIN st |-> [k \in DOMAIN st[s] |-> <<st[s][k].y0, st[s][k].y1>>]]

\* the rows (one per section index) the snapshot was stacked from
SnapshotRows(st) == IF st = <<>> THEN <<>> ELSE [k \in DOMAIN st[1] |-> st[1][k].data]

\* sum of the values at index k of the series before series s
RECURSIVE SumBelow(_, _, _)
SumBelow(areas, s, k) ==
    IF s = 1 THEN 0 ELSE SumBelow(areas, s - 1, k) + areas[s - 1][k]

\* the Stack Builder's output for equal-length series, point by point
ExpectedStack(d) ==
    [s \in 1..Len(d.areas) |->
        [k \in 1..Len(d.areas[s]) |->
            [y0 |-> SumBelow(d.areas, s, k),
             y1 |-> SumBelow(d.areas, s, k) + d.areas[s][k],
             data |-> [t \in 1..Len(d.areas) |-> d.areas[t][k]],
             coords |-> [x |-> Num(k - 1),
                         y |-> SumBelow(d.areas, s, k) + d.areas[s][k]],
             meta |-> At(d.areaMeta, s - 1)]]]

LayerNames(svg) == [l \in DOMAIN svg.layers |-> svg.layers[l].name]

\* svg is a fresh full render of the snapshot st
FullyRendered(svg, st) ==
    /\ LayerNames(svg) = IF build = "es6" THEN <<"areas", "borders", "dividers">>
                         ELSE <<"areas", "borders">>
    /\ \A l \in 1..2 :
          /\ Len(svg.layers[l].children) = Len(st)
          /\ \A s \in 1..Len(st) : svg.layers[l].children[s].datum = st[s]

HasUpdate(queue) == \E k \in DOMAIN queue : queue[k].kind = "update"

\* C1: a partial update keeps the field it does not supply: update({areaMeta})
\* leaves data.areas as it is, update({areas}) leaves data.areaMeta, update({})
\* leaves both; and a frame that runs while the snapshot is the stacking of the
\* current areas (only metadata changed since it was built) leaves the baseline
\* and top of every stacked point unchanged.
C1_PartialUpdateKeepsUntouched ==
    [][ /\ \A m \in MetaInputs :
              update([areaMeta |-> m]) => data'.areas = data.areas /\ stack' = stack
        /\ \A a \in AreasInputs :
              update([areas |-> a]) => data'.areaMeta = data.areaMeta
        /\ update(<<>>) => data'.areas = data.areas /\ data'.areaMeta = data.areaMeta
        /\ (Flush /\ SnapshotRows(stack) = transpose(data.areas))
              => Values(stack') = Values(stack) ]_vars

\* a metadata-only update is waiting for its frame
C1_Witness ==
    /\ HasUpdate(frameQueue)
    /\ SnapshotRows(stack) = transpose(data.areas)
    /\ stack[1][1].meta # At(data.areaMeta, 0)

\* C2: a frame that runs only resize callbacks, however many, clears and
\* renders exactly once.
C2_ResizeCoalesced ==
    [][ (Flush /\ \A k \in DOMAIN frameQueue : frameQueue[k].kind = "resize")
            => frame.ops = <<"clear", "render">> ]_vars

Highlights(queue) == {k \in DOMAIN queue : queue[k].kind = "highlight"}

HighlightLayers(svg) == SelectSeq(svg.layers, LAMBDA l : l.name = "highlights")

\* C3: of several pointer events before a frame, only the latest has a
\* callback: the queue never holds two highlight callbacks, a frame runs at
\* most one, and what it draws is the highlight of the latest event.
C3_PointerCoalesced ==
    [][ /\ Cardinality(Highlights(frameQueue')) <= 1
        /\ Flush =>
              Cardinality({k \in DOMAIN frame.ops : frame.ops[k] = "highlight"}) <= 1
        /\ (Flush /\ frameQueue[Len(frameQueue)].kind = "highlight") =>
              LET latest == frameQueue[Len(frameQueue)]
                  layers == HighlightLayers(container'[chart'])
              IN  /\ Len(layers) = 1
                  /\ Len(layers[1].children) = 3
                  /\ layers[1].children[2].over = latest.idealPointLeft.x
                  /\ layers[1].children[3].over = latest.idealPointRight.x ]_vars

\* C4: update merges what it is given over the current data, and a frame with
\* an update callback leaves the snapshot equal to the Stack Builder's output
\* for the merged data and the container holding one svg, freshly rendered
\* from that snapshot.
C4_UpdateRebuilds ==
    [][ /\ \A d \in UpdateInputs :
              update(d) =>
                 /\ data'.areas = IF "areas" \in DOMAIN d THEN d.areas ELSE data.areas
                 /\ data'.areaMeta =
                       IF "areaMeta" \in DOMAIN d THEN d.areaMeta ELSE data.areaMeta
        /\ (Flush /\ HasUpdate(frameQueue))
              => /\ stack' = ExpectedStack(data')
                 /\ Len(container') = 1
                 /\ chart' = 1
                 /\ FullyRendered(container'[1], stack') ]_vars

\* the snapshot and the surface show data that differs from the constructor's
C4_Witness ==
    /\ frameQueue = <<>>
    /\ data.areas # config.data.areas
    /\ data.areaMeta # config.data.areaMeta
    /\ stack = ExpectedStack(data)
    /\ FullyRendered(container[1], stack)

\* the style and identifier options of the constructor
OptionPaths ==
    {<<"classNames", "svg">>, <<"classNames", "area">>, <<"classNames", "areaBorder">>,
     <<"classNames", "highlight", "circle">>, <<"classNames", "highlight", "path">>,
     <<"ids", "mask", "highlightPath">>}

\* C5: every option the caller's configuration does not give has its default
\* value in the effective configuration.
C5_UnspecifiedOptionsDefault ==
    [][ Construct =>
          \A p \in OptionPaths :
             Lookup(call.config, p) = Undefined
                => Lookup(config', p) = Lookup(defaults, p) ]_vars

Constructed == call = NoCall /\ config # Undefined

\* C6: the stacked point of series s at index k has as baseline the sum of the
\* values at k of the series before s, and as top the baseline plus its own.
C6_StackingCorrect ==
    Constructed =>
        /\ Len(stack) = Len(data.areas)
        /\ \A s \in 1..Len(stack) :
              /\ Len(stack[s]) = Len(data.areas[s])
              /\ \A k \in 1..Len(stack[s]) :
                    /\ stack[s][k].y0 = SumBelow(data.areas, s, k)
                    /\ stack[s][k].y1 = stack[s][k].y0 + data.areas[s][k]

\* [[1,2],[3,4]]: series 1 at index 0 has baseline 1 and top 4
C6_Witness ==
    /\ Constructed
    /\ data.areas = <<<<1, 2>>, <<3, 4>>>>
    /\ stack[2][1].y0 = 1
    /\ stack[2][1].y1 = 4
    /\ stack[1][1].y0 = 0
    /\ stack[1][1].y1 = 1

\* C7: N series of length M give N sequences of M points; every point of
\* sequence s carries areaMeta[s] and has coords.y equal to its top.
C7_StackShapeAndAnnotation ==
    Constructed =>
        /\ Len(stack) = Len(data.areas)
        /\ \A s \in 1..Len(stack) :
              /\ Len(stack[s]) = Len(data.areas[1])
              /\ \A k \in 1..Len(stack[s]) :
                    /\ stack[s][k].meta = At(data.areaMeta, s - 1)
                    /\ stack[s][k].coords.y = stack[s][k].y1

\* 3 series of length 5, with their three metadata entries
C7_Witness ==
    /\ Constructed
    /\ Len(data.areas) = 3
    /\ Len(data.areas[1]) = 5
    /\ Len(data.areaMeta) = 3
    /\ Len(stack) = 3
    /\ Len(stack[3]) = 5
    /\ stack[3][5].meta = Meta("c")

Returned(f) == call.fn = f /\ call.returned

SomeLeft == \E k \in DOMAIN call.data : RLt(call.data[k].coords.x, call.referencePointX)

LargestLeft ==
    /\ RLt(ret.coords.x, call.referencePointX)
    /\ \E k \in DOMAIN call.data : ret = call.data[k]
    /\ \A k \in DOMAIN call.data :
          RLt(call.data[k].coords.x, call.referencePointX)
             => RLe(call.data[k].coords.x, ret.coords.x)

\* C8 as claimed: for every reference, findClosestPointLeft returns the point
\* with the largest coords.x strictly less than the reference.
C8_LeftAlways == Returned("findClosestPointLeft") => LargestLeft

\* C8: when some point lies strictly left of the reference,
\* findClosestPointLeft returns the point with the largest coords.x strictly
\* less than the reference; when none does, it returns the first point.
C8_LeftOrFirst ==
    Returned("findClosestPointLeft") =>
        IF SomeLeft THEN LargestLeft ELSE ret = call.data[1]

\* x-coordinates [0,1,2,3], reference 1.5: the point at x = 1
C8_Witness ==
    /\ Returned("findClosestPointLeft")
    /\ [k \in DOMAIN call.data |-> call.data[k].coords.x] = <<Num(0), Num(1), Num(2), Num(3)>>
    /\ call.referencePointX = Rat(3, 2)
    /\ ret.coords.x = Num(1)

SomeRight == \E k \in DOMAIN call.data : RLe(call.referencePointX, call.data[k].coords.x)

SmallestRight ==
    /\ RLe(call.referencePointX, ret.coords.x)
    /\ \E k \in DOMAIN call.data : ret = call.data[k]
    /\ \A k \in DOMAIN call.data :
          RLe(call.referencePointX, call.data[k].coords.x)
             => RLe(ret.coords.x, call.data[k].coords.x)

\* C9 as claimed: for every reference, findClosestPointRight returns the point
\* with the smallest coords.x greater than or equal to the reference.
C9_RightAlways == Returned("findClosestPointRight") => SmallestRight

\* C9: when some point lies at or right of the reference,
\* findClosestPointRight returns the point with the smallest coords.x greater
\* than or equal to the reference (a point at the reference itself included);
\* when none does, it returns the last point.
C9_RightOrLast ==
    Returned("findClosestPointRight") =>
        IF SomeRight THEN SmallestRight ELSE ret = call.data[Len(call.data)]

\* x-coordinates [0,1,2,3], reference exactly 2: the point at x = 2
C9_Witness ==
    /\ Returned("findClosestPointRight")
    /\ [k \in DOMAIN call.data |-> call.data[k].coords.x] = <<Num(0), Num(1), Num(2), Num(3)>>
    /\ call.referencePointX = Num(2)
    /\ ret.coords.x = Num(2)

\* C10: on a curve whose x grows strictly with the length, the bisection
\* returns the point at a length within 0.5 of the length where the curve's x
\* is the target.
C10_BisectionAccurate ==
    Returned("findClosestPointVertically") =>
        /\ ret = pointFunc(call.curve, call.split)
        /\ RLe(RAbs(RSub(call.split, call.target)), precision)

\* the target a third of the way along the bent curve
C10_Witness ==
    /\ Returned("findClosestPointVertically")
    /\ call.curve = "bend"
    /\ call.target = Rat(100, 3)
    /\ call.split # call.target
    /\ call.depth = 8

Interval == RSub(call.right, call.left)

\* C11: the bisection over [0, CurveEnd] halves its interval at most 8 times,
\* whatever the curve: after n recursive calls the interval is CurveEnd / 2^n
\* long, a call recurses only from an interval longer than 0.5, the call
\* reached after 8 halvings has an interval of at most 0.5 (so it returns),
\* and the call that returns has such an interval and returns the point it
\* evaluated at the middle of it.
C11_BisectionTerminates ==
    call.fn = "findClosestPointVertically" =>
        /\ call.depth <= 8
        /\ Interval = RDiv(Num(CurveEnd), Num(2 ^ call.depth))
        /\ call.depth > 0 => RLt(precision, RMul(Num(2), Interval))
        /\ call.depth = 8 => RLe(Interval, precision)
        /\ call.returned =>
              /\ RLe(Interval, precision)
              /\ call.split = RDiv(RAdd(call.left, call.right), Num(2))
              /\ ret = pointFunc(call.curve, call.split)

\* the search has returned on the curve that turns back, after 8 halvings
C11_Witness ==
    /\ Returned("findClosestPointVertically")
    /\ call.curve = "peak"
    /\ call.xValue = Num(60)
    /\ call.depth = 8
    /\ RLt(Num(50), call.left)

\* C12: a point of the coordinate system converted to pixels and back is the
\* same point, in x and in y, whatever the size of the container.
C12_ScaleRoundTrip ==
    Returned("convertPxToPoint") =>
        /\ ret.x = call.point.x
        /\ ret.y = call.point.y

\* the svg holds no area, border or divider element
NothingDrawn(svg) == \A l \in DOMAIN svg.layers : svg.layers[l].children = <<>>

\* C13: the constructor given no series returns the graph without an error,
\* and a frame that runs the update to no series raises no error; either
\* leaves one svg with no element drawn in it.
C13_EmptyIsSilentNoOp ==
    [][ /\ (Construct /\ call.config.data.areas = <<>>)
              => /\ ret' # TypeError
                 /\ Len(container') = 1
                 /\ NothingDrawn(container'[1])
        /\ (Flush /\ HasUpdate(frameQueue) /\ data.areas = <<>>)
              => /\ \A k \in DOMAIN frame.ops : frame.ops[k] # "TypeError"
                 /\ Len(container') = 1
                 /\ NothingDrawn(container'[1]) ]_vars

NamedLayers(svg, name) == SelectSeq(svg.layers, LAMBDA l : l.name = name)

\* C14: between any two handlers or frames the container holds one svg, the
\* graph's chart, and the svg holds at most one layer of each name.
C14_LayerUniqueness ==
    /\ Len(container) = 1
    /\ chart = 1
    /\ \A name \in {"areas", "borders", "dividers", "highlights", "masks"} :
          Len(NamedLayers(container[1], name)) <= 1
    /\ \A l \in DOMAIN container[1].layers :
          container[1].layers[l].name
             \in {"areas", "borders", "dividers", "highlights", "masks"}

\* a second highlight has been drawn over the first: the highlights layer
\* was removed and added again behind the mask
C14_Witness ==
    /\ frameQueue = <<>>
    /\ LayerNames(container[1]) = <<"areas", "borders", "dividers", "masks", "highlights">>

\* the callbacks of pointer events in a queue, in order
PointerCallbacks(queue) ==
    SelectSeq(queue, LAMBDA cb : cb.kind \in {"highlight", "unhighlight"})

LastPointerKind(queue) ==
    LET pcs == PointerCallbacks(queue)
    IN  IF pcs = <<>> THEN "none" ELSE pcs[Len(pcs)].kind

\* C15: when the last pointer event before a frame was a mouseover or
\* mousemove, then after the frame's callbacks there is exactly one highlights
\* layer, holding the drawn path and the two circles of that event, whatever
\* was scheduled around it.
C15_LastHighlightStands ==
    [][ (Flush /\ LastPointerKind(frameQueue) = "highlight") =>
            LET pcs == PointerCallbacks(frameQueue)
                latest == pcs[Len(pcs)]
                layers == HighlightLayers(container'[chart'])
            IN  /\ Len(layers) = 1
                /\ Len(layers[1].children) = 3
                /\ layers[1].children[1].tag = "path"
                /\ layers[1].children[1].drawn
                /\ layers[1].children[2].over = latest.idealPointLeft.x
                /\ layers[1].children[3].over = latest.idealPointRight.x ]_vars

\* C16: after a frame whose last pointer callback is a mouseout's no
\* highlights layer is left; a frame of pointer callbacks ending so leaves the
\* areas and borders layers as they were; no highlights layer appears while no
\* pointer callback runs; and nothing is drawn or removed outside a frame.
C16_MouseOutClears ==
    [][ /\ (Flush /\ LastPointerKind(frameQueue) = "unhighlight")
              => HighlightLayers(container'[chart']) = <<>>
        /\ (Flush /\ LastPointerKind(frameQueue) = "unhighlight"
                  /\ PointerCallbacks(frameQueue) = frameQueue)
              => /\ NamedLayers(container'[chart'], "areas")
                       = NamedLayers(container[chart], "areas")
                 /\ NamedLayers(container'[chart'], "borders")
                       = NamedLayers(container[chart], "borders")
        /\ (Flush /\ LastPointerKind(frameQueue) = "none"
                  /\ HighlightLayers(container[chart]) = <<>>)
              => HighlightLayers(container'[chart']) = <<>>
        /\ (frameQueue' # <<>>) => (container' = container /\ chart' = chart) ]_vars

\* a highlight was drawn (its mask is still there) and a mouseout has
\* cleared it
C16_Witness ==
    /\ frameQueue = <<>>
    /\ NamedLayers(container[chart], "masks") # <<>>
    /\ HighlightLayers(container[chart]) = <<>>
    /\ Len(NamedLayers(container[chart], "areas")) = 1

\* the class of areaMeta[s], when the entry has one
MetaClass(d, s) ==
    LET m == At(d.areaMeta, s)
    IN  IF m.kind = "object" /\ m.classNames # "" THEN {m.classNames} ELSE {}

\* C17: the path of every series s of the areas layer has the class of all
\* areas and, when areaMeta[s] has classNames, exactly that class besides;
\* for any number of series and any length.
C17_AreaStyledBySeries ==
    Constructed =>
        LET paths == NamedLayers(container[1], "areas")[1].children
        IN  /\ Len(paths) = Len(data.areas)
            /\ \A s \in 1..Len(paths) :
                  paths[s].class =
                     {ClassOf(Lookup(config, <<"classNames", "area">>))}
                     \cup MetaClass(data, s - 1)

\* C18: the y-scale has the range [clientHeight, 0]: where the stack has a
\* lowest baseline below its highest top, the highest top is drawn at pixel
\* 0 and the lowest baseline at pixel clientHeight.
C18_YScaleOrientation ==
    stack # <<>> =>
        /\ yRange(build, viewport) = <<Num(viewport.height), Num(0)>>
        /\ stackMin(stack) < stackMax(stack) =>
              \A flat \in Flats :
                 /\ convertPointToPx(flat, build, data, stack, viewport,
                        [x |-> Num(0), y |-> Num(stackMax(stack))]).y = Num(0)
                 /\ convertPointToPx(flat, build, data, stack, viewport,
                        [x |-> Num(0), y |-> Num(stackMin(stack))]).y
                       = Num(viewport.height)

HasResize(queue) == \E k \in DOMAIN queue : queue[k].kind = "resize"

\* the pixel position of section index k at the current width
EvenPosition(k) ==
    RMul(RDiv(Num(viewport.width), Num(xAxisSectionCount(data))), Num(k))

C20_SnapshotMatchesData ==
    /\ stack = updateStack(data, viewport)
    /\ \A s \in DOMAIN stack : Len(stack[s]) - 1 = xAxisSectionCount(data)

\* the graph as callback k of the queue finds it: the callbacks queued before
\* it have run
FrameBefore(k) ==
    runFrame(build, config, viewport, SubSeq(frameQueue, 1, k - 1),
             [data |-> data, stack |-> stack, container |-> container,
              chart |-> chart, ops |-> <<>>])

\* C21: every highlight callback a frame runs has the index of a series of
\* the snapshot it finds when it runs.
C21_HighlightIndexValid ==
    [][ Flush =>
          \A k \in Highlights(frameQueue) :
             frameQueue[k].i < Len(FrameBefore(k).stack) ]_vars

\* C22: for every ascending sequence of points and every reference, the
\* point found to the left has a coords.x not above that of the point found
\* to the right, each being a point of the sequence, and the mask between
\* their pixels has a width that is not negative.
C22_BoundariesOrdered ==
    Returned("highlightBoundaries") =>
        /\ \E k \in DOMAIN call.data : ret.idealPointLeft = call.data[k].coords
        /\ \E k \in DOMAIN call.data : ret.idealPointRight = call.data[k].coords
        /\ RLe(ret.idealPointLeft.x, ret.idealPointRight.x)
        /\ RLe(Num(0), RSub(ret.maskConfig.boundary.right,
                            ret.maskConfig.boundary.left))

\* the reference at the first of three distinct points: both scans return it
C22_Witness ==
    /\ Returned("highlightBoundaries")
    /\ [k \in DOMAIN call.data |-> call.data[k].coords.x] = <<Num(1), Num(2), Num(3)>>
    /\ call.referencePointX = Num(1)
    /\ viewport.width = 6
    /\ ret.idealPointLeft.x = Num(1)
    /\ ret.idealPointRight.x = Num(1)

=============================================================================
